---- MODULE Spec2Model ----
(***************************************************************************)
(* Session engine of cloud-quiz-battle.                                    *)
(*                                                                         *)
(* Three server variants live in the repository:                           *)
(*   - src/unnamed/part_001: stateless HTTP handlers over a Redis store     *)
(*     (getRoom / setRoom), lazy answering <-> revealing phases;            *)
(*   - src/unnamed/part_002: HTTP handlers over an in-process Map, explicit *)
(*     next-question;                                                      *)
(*   - src/server.js: socket.io handlers over an in-process Map.           *)
(*                                                                         *)
(* Every Redis handler is two steps: the getRoom read (the handler keeps a *)
(* private copy of the room) and the rest of the handler, which mutates    *)
(* that copy, writes it back with setRoom and responds.  Handlers of       *)
(* different requests interleave freely between the two steps.             *)
(* Times are milliseconds, as Date.now() gives them.                       *)
(***************************************************************************)
EXTENDS Integers, Sequences, FiniteSets, TLC

\* ---------------------------------------------------------------- bounds
\* Requests begun in one behaviour of each specification.
MaxOpsRace == 3
MaxOpsPlay == 5
MaxOpsLoad == 4
MaxOps == 4
MaxOpsMemory == 6
MaxOpsArchive == 4
MaxOpsScore == 2
MaxOpsViews == 5
MaxOpsSocket == 7
MaxOpsOutage == 3
MaxOpsPoll == 1
MaxRounds == 2

\* ------------------------------------------------------ program constants
QUESTION_TIME == 30
REVEAL_TIME == 5

\* Concurrent requests in flight against the Redis store.
Handlers == {1, 2}
Players == {"A", "B"}
AnswerIndexes == 0..3
QuizIds == {"z1"}

\* The instants (ms) at which requests are served: the start, the last
\* millisecond of the first answer window, its end, the end of the reveal
\* window that follows, and the same two boundaries of a second question.
RaceTimes == {0, 30000, 35000}
PlayTimes == {0, 29999, 30000, 35000, 65000, 70000}
LoadTimes == {0, 30000, 35000}
MemoryTimes == {0, 10000, 20000}

\* A question of the generated JSON: its text and the index of the correct
\* option.  The four options and the explanation are fixed by the text.
Q0 == [question |-> "q0", correct |-> 0]
Q1 == [question |-> "q1", correct |-> 1]

\* What the generation service may answer with: a parsed question list.
GenOutputs == {<<Q1>>, <<Q0, Q1>>}

\* A question as the service may also write it: its correct index is none of
\* the four options.
QBad == [question |-> "qx", correct |-> 4]
MalformedOutputs == {<<QBad>>}

NoRoom == [status |-> "none"]
NoTime == -1
EmptyMap == [x \in {} |-> 0]

\* obj[key] = value on a JS object used as a map.
Put(obj, key, value) ==
  [x \in DOMAIN obj \cup {key} |-> IF x = key THEN value ELSE obj[x]]

\* Math.floor((now - start) / 1000)
ElapsedSeconds(t, start) == (t - start) \div 1000

Max(a, b) == IF a >= b THEN a ELSE b

\* Array.prototype.sort(() => Math.random() - 0.5): some permutation.
Orders(n) ==
  {f \in [1..n -> 1..n] : \A i, j \in 1..n : i # j => f[i] # f[j]}

Shuffles(s) == {[i \in 1..Len(s) |-> s[f[i]]] : f \in Orders(Len(s))}

\* ------------------------------------------------- the Redis variant
\* The room record of POST /api/create-room.  name, isPublic, courseContent
\* and createdAt are never read by the session engine and are left out;
\* players is the set of names (a name is pushed only when absent);
\* currentQuestionAnswers, absent until start-game, is the empty map (the
\* only reader replaces an absent map by {} before looking into it).
NewRoom(t) ==
  [players |-> {}, questions |-> <<>>, currentQuestion |-> 0,
   scores |-> EmptyMap, playerAnswers |-> EmptyMap,
   status |-> "waiting", phase |-> "waiting",
   questionStartTime |-> NoTime, revealStartTime |-> NoTime,
   currentQuestionAnswers |-> EmptyMap, lastUpdate |-> t]

NoAnswer == -1

\* What a handler sends back.  kind: notFound (404), invalid (400),
\* failed (500), status, finished, view, alreadyAnswered, submitted,
\* success, roomCode, exception (the handler threw; nothing is sent).
Resp(kind) ==
  [kind |-> kind, phase |-> "none", timeLeft |-> 0,
   correctAnswer |-> NoAnswer, questionNum |-> 0]

NoResp == Resp("none")

\* A handler's outcome: the room it holds, whether it called setRoom with
\* it, and its response.
Reply(room, write, resp) == [room |-> room, write |-> write, resp |-> resp]

\* room.players.push / scores / playerAnswers initialisation shared by
\* join-room and submit-answer.
Register(room, playerName) ==
  [room EXCEPT
     !.players = @ \cup {playerName},
     !.scores = IF playerName \in DOMAIN @ THEN @ ELSE Put(@, playerName, 0),
     !.playerAnswers =
        IF playerName \in DOMAIN @ THEN @ ELSE Put(@, playerName, <<>>)]

\* POST /api/join-room/:roomCode
JoinRoom(room, playerName, t) ==
  IF room = NoRoom THEN Reply(room, FALSE, Resp("notFound"))
  ELSE Reply([Register(room, playerName) EXCEPT !.lastUpdate = t],
             TRUE, Resp("success"))

\* Lines 367-377 of POST /api/start-game/:roomCode: the room it stores.
BeginGame(room, t) ==
  [room EXCEPT
     !.status = "playing", !.phase = "answering",
     !.currentQuestion = 0, !.questionStartTime = t,
     !.currentQuestionAnswers = EmptyMap,
     !.scores = [x \in DOMAIN @ \cup room.players |->
                   IF x \in room.players THEN 0 ELSE @[x]],
     !.playerAnswers = [x \in DOMAIN @ \cup room.players |->
                          IF x \in room.players THEN <<>> ELSE @[x]],
     !.lastUpdate = t]

\* A variant of start-game that does not look at the question list.
StartGameUnchecked(room, t) ==
  IF room = NoRoom THEN Reply(room, FALSE, Resp("invalid"))
  ELSE Reply(BeginGame(room, t), TRUE, Resp("success"))

\* POST /api/start-game/:roomCode
StartGame(room, t) ==
  IF room = NoRoom \/ Len(room.questions) = 0
  THEN Reply(room, FALSE, Resp("invalid"))
  ELSE Reply(BeginGame(room, t), TRUE, Resp("success"))

\* A variant of the answering -> revealing transition that dates the reveal
\* window from the scheduled end of the answer window instead of the call.
AnswerToRevealOnSchedule(room, t) ==
  IF /\ room.phase = "answering"
     /\ ElapsedSeconds(t, room.questionStartTime) >= QUESTION_TIME
  THEN [room EXCEPT !.phase = "revealing",
                    !.revealStartTime =
                       room.questionStartTime + QUESTION_TIME * 1000]
  ELSE room

\* The phase transitions of GET /api/question/:roomCode, lines 400-426.
AnswerToReveal(room, t) ==
  IF /\ room.phase = "answering"
     /\ ElapsedSeconds(t, room.questionStartTime) >= QUESTION_TIME
  THEN [room EXCEPT !.phase = "revealing", !.revealStartTime = t]
  ELSE room

RevealDue(room, t) ==
  /\ room.phase = "revealing"
  /\ ElapsedSeconds(t, room.revealStartTime) >= REVEAL_TIME

RevealToNext(room, t) ==
  IF RevealDue(room, t)
  THEN LET r == [room EXCEPT !.currentQuestion = @ + 1,
                             !.currentQuestionAnswers = EmptyMap]
       IN IF r.currentQuestion >= Len(r.questions)
          THEN [r EXCEPT !.status = "finished"]
          ELSE [r EXCEPT !.phase = "answering", !.questionStartTime = t]
  ELSE room

\* The answering view of lines 430-443.
AnsweringView(room, t) ==
  [Resp("view") EXCEPT
     !.phase = "answering",
     !.questionNum = room.currentQuestion + 1,
     !.timeLeft =
        Max(0, QUESTION_TIME - ElapsedSeconds(t, room.questionStartTime))]

\* The revealing view of lines 444-459; the explanation goes with the
\* correct index.
RevealingView(room, t) ==
  [Resp("view") EXCEPT
     !.phase = "revealing",
     !.questionNum = room.currentQuestion + 1,
     !.correctAnswer = room.questions[room.currentQuestion + 1].correct,
     !.timeLeft =
        Max(0, REVEAL_TIME - ElapsedSeconds(t, room.revealStartTime))]

\* A variant of the view that sends the correct index in both phases.
QuestionViewLeaking(room, t) ==
  IF room.currentQuestion >= Len(room.questions)
  THEN Resp("exception")
  ELSE IF room.phase = "answering"
  THEN [AnsweringView(room, t) EXCEPT
          !.correctAnswer = room.questions[room.currentQuestion + 1].correct]
  ELSE RevealingView(room, t)

\* The view of lines 428-459 for a room that is still playing.
QuestionView(room, t) ==
  IF room.currentQuestion >= Len(room.questions)
  THEN Resp("exception")   \* question is undefined: question.question throws
  ELSE IF room.phase = "answering"
  THEN AnsweringView(room, t)
  ELSE RevealingView(room, t)

\* GET /api/question/:roomCode
GetQuestion(room, t) ==
  IF room = NoRoom THEN Reply(room, FALSE, Resp("notFound"))
  ELSE IF room.status = "finished" THEN Reply(room, FALSE, Resp("finished"))
  ELSE IF room.status # "playing" THEN Reply(room, FALSE, Resp("status"))
  ELSE LET r1 == AnswerToReveal(room, t)
           r2 == RevealToNext(r1, t)
       IN IF r2.status = "finished"
          THEN Reply(r2, TRUE, Resp("finished"))
          ELSE Reply(r2, r2 # room, QuestionView(r2, t))

\* A variant of the scoring rule without the minimum.
PointsUnfloored(timeLeft) == timeLeft * 50

\* Math.max(100, Math.floor(timeLeft * 50)), line 507.
Points(timeLeft) == Max(100, timeLeft * 50)

\* JS truthiness of room.currentQuestionAnswers[playerName], line 485:
\* an absent entry and the stored index 0 are both falsy.
Truthy(obj, key) == key \in DOMAIN obj /\ obj[key] # 0

\* Lines 472-518 of POST /api/submit-answer/:roomCode, past the precondition.
AcceptAnswer(room, playerName, answerIndex, t) ==
  LET r == Register(room, playerName)
  IN IF Truthy(r.currentQuestionAnswers, playerName)
     THEN Reply(r, FALSE, Resp("alreadyAnswered"))
     ELSE IF r.currentQuestion >= Len(r.questions)
     THEN Reply(r, FALSE, Resp("exception"))  \* question.correct throws
     ELSE
       LET question == r.questions[r.currentQuestion + 1]
           timeLeft ==
             Max(0, QUESTION_TIME - ElapsedSeconds(t, r.questionStartTime))
           isCorrect == answerIndex = question.correct
           record == [questionIndex |-> r.currentQuestion,
                      question |-> question.question,
                      playerAnswer |-> answerIndex,
                      correctAnswer |-> question.correct,
                      isCorrect |-> isCorrect]
       IN Reply(
            [r EXCEPT
               !.currentQuestionAnswers = Put(@, playerName, answerIndex),
               !.playerAnswers[playerName] = Append(@, record),
               !.scores[playerName] =
                  IF isCorrect THEN @ + Points(timeLeft) ELSE @,
               !.lastUpdate = t],
            TRUE, Resp("submitted"))

\* A variant of submit-answer that registers the player and stores the room
\* before it rejects the call.
SubmitAnswerLateGuard(room, playerName, answerIndex, t) ==
  IF room = NoRoom THEN Reply(room, FALSE, Resp("invalid"))
  ELSE IF room.status # "playing" \/ room.phase # "answering"
  THEN Reply(Register(room, playerName), TRUE, Resp("invalid"))
  ELSE AcceptAnswer(room, playerName, answerIndex, t)

\* POST /api/submit-answer/:roomCode
SubmitAnswer(room, playerName, answerIndex, t) ==
  IF room = NoRoom \/ room.status # "playing" \/ room.phase # "answering"
  THEN Reply(room, FALSE, Resp("invalid"))
  ELSE AcceptAnswer(room, playerName, answerIndex, t)

\* getSavedQuiz(quizId): the parsed quiz, or null.
NoQuiz == [found |-> FALSE, questions |-> <<>>]
GetSavedQuiz(archive, quizId) ==
  IF quizId \in DOMAIN archive
  THEN [found |-> TRUE, questions |-> archive[quizId]]
  ELSE NoQuiz

\* A variant of load-quiz that stores only the first question of the shuffled
\* list.
LoadQuizFirstOnly(room, quiz, shuffled, t) ==
  IF room = NoRoom THEN Reply(room, FALSE, Resp("notFound"))
  ELSE IF ~quiz.found THEN Reply(room, FALSE, Resp("notFound"))
  ELSE Reply([room EXCEPT !.questions = SubSeq(shuffled, 1, 1),
                          !.lastUpdate = t],
             TRUE, Resp("success"))

\* POST /api/load-quiz/:roomCode; quiz is what getSavedQuiz returned and
\* shuffled the order the sort left its questions in.
LoadQuiz(room, quiz, shuffled, t) ==
  IF room = NoRoom THEN Reply(room, FALSE, Resp("notFound"))
  ELSE IF ~quiz.found THEN Reply(room, FALSE, Resp("notFound"))
  ELSE Reply([room EXCEPT !.questions = shuffled, !.lastUpdate = t],
             TRUE, Resp("success"))

\* Array.prototype.slice(0, n)
Slice0(s, n) ==
  LET end == IF n >= 0 THEN (IF n < Len(s) THEN n ELSE Len(s))
             ELSE Max(0, Len(s) + n)
  IN SubSeq(s, 1, end)

\* What the generation call of lines 269-299 ends in: a parsed question
\* list, or a throw (no answer, or text that JSON.parse rejects).
GenResults ==
  {[ok |-> TRUE, questions |-> q] : q \in GenOutputs \cup MalformedOutputs}
    \cup {[ok |-> FALSE, questions |-> <<>>]}

\* Lines 248-299 of POST /api/upload-content/:roomCode: the question list
\* before the final shuffle.  existing is what getSavedQuiz returned, mixed
\* the order the first sort left its questions in, gen the generation result.
UploadQuestions(request, existing, mixed, gen) ==
  LET fromArchive ==
        IF request.useExisting # "" /\ existing.found
        THEN IF request.mixMode
             THEN Slice0(mixed, request.numQuestions - request.mixCount)
             ELSE existing.questions
        ELSE <<>>
      needNewQuestions == request.useExisting = "" \/ request.mixMode
  IN IF needNewQuestions /\ request.content
     THEN [ok |-> gen.ok, questions |-> fromArchive \o gen.questions]
     ELSE [ok |-> TRUE, questions |-> fromArchive]

\* POST /api/upload-content/:roomCode after the question list is assembled:
\* assembled is UploadQuestions' result, shuffled the final order.
UploadContent(room, assembled, shuffled, t) ==
  IF room = NoRoom THEN Reply(room, FALSE, Resp("notFound"))
  ELSE IF ~assembled.ok THEN Reply(room, FALSE, Resp("failed"))
  ELSE Reply([room EXCEPT !.questions = shuffled, !.lastUpdate = t],
             TRUE, Resp("success"))

\* ------------------------------------------------------------- requests
Request(name) ==
  [name |-> name, playerName |-> "", answerIndex |-> 0, quizId |-> "",
   useExisting |-> "", mixMode |-> FALSE, content |-> FALSE,
   numQuestions |-> 0, mixCount |-> 0]

NoRequest == Request("none")

JoinRequests == {[Request("join") EXCEPT !.playerName = p] : p \in Players}
SubmitsOf(answers) ==
  {[Request("submit") EXCEPT !.playerName = p, !.answerIndex = a] :
     p \in Players, a \in answers}
SubmitRequests == SubmitsOf(AnswerIndexes)
LoadQuizRequests == {[Request("load") EXCEPT !.quizId = z] : z \in QuizIds}
UploadRequests ==
  {[Request("upload") EXCEPT !.useExisting = z, !.mixMode = m,
                             !.content = c, !.numQuestions = 2,
                             !.mixCount = 1] :
     z \in QuizIds \cup {""}, m \in BOOLEAN, c \in BOOLEAN}

Requests ==
  JoinRequests \cup SubmitRequests \cup LoadQuizRequests \cup UploadRequests
    \cup {Request("start"), Request("question")}

\* ---------------------------------------------------------------- state
VARIABLES
  redis,    \* the room stored under room:<code>, or NoRoom
  quizzes,  \* the archive: quiz id -> question list
  now,      \* Date.now()
  pc,       \* per handler: idle, read (getRoom returned), done
  request,  \* per handler: the request it serves
  room,     \* per handler: its copy of the room, as getRoom parsed it
  resp,     \* per handler: the response of its last request
  ops,      \* requests begun so far
  rooms,    \* the in-process variant: the room in the Map, or NoRoom
  memResp,  \* the in-process variant: the last response
  shown,    \* history: per question index, the last view sent for it
  ioRooms,  \* the socket variant: the room in the Map, or NoRoom
  sockets,  \* the socket variant: the players whose socket is in the room
  up        \* the Redis server answers (redis.get / redis.setex do not throw)

vars == <<redis, quizzes, now, pc, request, room, resp, ops, rooms, memResp,
          shown, ioRooms, sockets, up>>
redisVars == <<redis, quizzes, pc, request, room, resp, up>>
memVars == <<rooms, memResp>>
ioVars == <<ioRooms, sockets>>

\* No view sent yet for a question index.
NoView == [phase |-> "none", timeLeft |-> 0]
QuestionIndexes == {0, 1}

Free(h) == pc[h] \in {"idle", "done"}

\* Time passes.
Tick(times) ==
  /\ \E t \in times : t > now /\ now' = t
  /\ UNCHANGED <<redis, quizzes, pc, request, room, resp, ops, rooms, memResp,
                 shown, ioVars, up>>

\* POST /api/create-room: one setRoom under the (colliding or fresh) code,
\* its result not looked at.
CreateRoom(h, maxOps) ==
  /\ Free(h) /\ ops < maxOps
  /\ redis' = IF up THEN NewRoom(now) ELSE redis
  /\ pc' = [pc EXCEPT ![h] = "done"]
  /\ request' = [request EXCEPT ![h] = Request("create")]
  /\ room' = [room EXCEPT ![h] = NoRoom]
  /\ resp' = [resp EXCEPT ![h] = Resp("roomCode")]
  /\ ops' = ops + 1
  /\ UNCHANGED <<quizzes, now, rooms, memResp, shown, ioVars, up>>

\* A request arrives and its handler's getRoom returns: the stored room, or
\* null when redis.get throws.
Read(h, requests, maxOps) ==
  /\ Free(h) /\ ops < maxOps
  /\ \E r \in requests : request' = [request EXCEPT ![h] = r]
  /\ room' = [room EXCEPT ![h] = IF up THEN redis ELSE NoRoom]
  /\ pc' = [pc EXCEPT ![h] = "read"]
  /\ resp' = [resp EXCEPT ![h] = NoResp]
  /\ ops' = ops + 1
  /\ UNCHANGED <<redis, quizzes, now, rooms, memResp, shown, ioVars, up>>

\* The handler runs to its end: setRoom when it calls it (it stores the room
\* unless redis.setex throws, and its result is not looked at), then the
\* response.
Finish(h, reply) ==
  /\ redis' = IF reply.write /\ up THEN reply.room ELSE redis
  /\ resp' = [resp EXCEPT ![h] = reply.resp]
  /\ pc' = [pc EXCEPT ![h] = "done"]
  /\ UNCHANGED <<now, request, room, ops, rooms, memResp, ioVars, up>>

Serving(h, name) == pc[h] = "read" /\ request[h].name = name

JoinFinish(h) ==
  /\ Serving(h, "join")
  /\ Finish(h, JoinRoom(room[h], request[h].playerName, now))
  /\ UNCHANGED <<quizzes, shown>>

StartFinish(h) ==
  /\ Serving(h, "start")
  /\ Finish(h, StartGame(room[h], now))
  /\ UNCHANGED <<quizzes, shown>>

QuestionFinish(h) ==
  /\ Serving(h, "question")
  /\ Finish(h, GetQuestion(room[h], now))
  /\ UNCHANGED <<quizzes, shown>>

SubmitFinish(h) ==
  /\ Serving(h, "submit")
  /\ Finish(h, SubmitAnswer(room[h], request[h].playerName,
                            request[h].answerIndex, now))
  /\ UNCHANGED <<quizzes, shown>>

LoadQuizFinish(h) ==
  /\ Serving(h, "load")
  /\ LET quiz == IF up THEN GetSavedQuiz(quizzes, request[h].quizId)
                 ELSE NoQuiz
     IN \E shuffled \in Shuffles(quiz.questions) :
          Finish(h, LoadQuiz(room[h], quiz, shuffled, now))
  /\ UNCHANGED <<quizzes, shown>>

\* saveQuiz under a fresh random id, after a successful setRoom.
UploadFinish(h) ==
  /\ Serving(h, "upload")
  /\ LET existing == IF up THEN GetSavedQuiz(quizzes, request[h].useExisting)
                     ELSE NoQuiz
     IN \E mixed \in Shuffles(existing.questions), gen \in GenResults :
          LET assembled == UploadQuestions(request[h], existing, mixed, gen)
          IN \E shuffled \in Shuffles(assembled.questions) :
               LET reply == UploadContent(room[h], assembled, shuffled, now)
               IN /\ Finish(h, reply)
                  /\ IF reply.resp.kind = "success" /\ up
                     THEN \E quizId \in QuizIds :
                            quizzes' = Put(quizzes, quizId, shuffled)
                     ELSE UNCHANGED quizzes
  /\ UNCHANGED shown

\* ------------------------------------------------------- a game in play
\* The lobby: a room created at time 0 whose quiz was generated and saved
\* and which player A has joined.
Lobby(questions) ==
  [NewRoom(0) EXCEPT !.questions = questions, !.players = {"A"},
                     !.scores = Put(EmptyMap, "A", 0),
                     !.playerAnswers = Put(EmptyMap, "A", <<>>)]

Idle ==
  /\ now = 0
  /\ pc = [h \in Handlers |-> "idle"]
  /\ request = [h \in Handlers |-> NoRequest]
  /\ room = [h \in Handlers |-> NoRoom]
  /\ resp = [h \in Handlers |-> NoResp]
  /\ ops = 0
  /\ rooms = NoRoom
  /\ memResp = NoResp
  /\ shown = [q \in QuestionIndexes |-> NoView]
  /\ ioRooms = NoRoom
  /\ sockets = {}
  /\ up = TRUE

PlayRequests ==
  JoinRequests \cup SubmitRequests \cup {Request("start"), Request("question")}

\* Requests served one after the other, from the lobby.
InitPlay ==
  /\ \E questions \in GenOutputs :
       /\ redis = Lobby(questions)
       /\ quizzes = Put(EmptyMap, "z1", questions)
  /\ Idle

NextPlay ==
  \/ Tick(PlayTimes)
  \/ Read(1, PlayRequests, MaxOpsPlay)
  \/ JoinFinish(1)
  \/ StartFinish(1)
  \/ QuestionFinish(1)
  \/ SubmitFinish(1)

SpecPlay == InitPlay /\ [][NextPlay]_vars

\* Concurrent requests against a game started at time 0.
InitRace ==
  /\ \E questions \in GenOutputs :
       /\ redis = StartGame(Lobby(questions), 0).room
       /\ quizzes = Put(EmptyMap, "z1", questions)
  /\ Idle

\* Index 0 is the falsy one and the correct answer of Q0, 1 of Q1.
RaceRequests ==
  JoinRequests \cup SubmitsOf({0, 1}) \cup {Request("start"), Request("question")}

NextRace ==
  \/ Tick(RaceTimes)
  \/ \E h \in Handlers : Read(h, RaceRequests, MaxOpsRace)
  \/ \E h \in Handlers : JoinFinish(h)
  \/ \E h \in Handlers : StartFinish(h)
  \/ \E h \in Handlers : QuestionFinish(h)
  \/ \E h \in Handlers : SubmitFinish(h)

SpecRace == InitRace /\ [][NextRace]_vars

\* Loading and creating while a game may be on, one request after the other.
NextLoad ==
  \/ Tick(LoadTimes)
  \/ CreateRoom(1, MaxOpsLoad)
  \/ Read(1, Requests, MaxOpsLoad)
  \/ JoinFinish(1)
  \/ StartFinish(1)
  \/ QuestionFinish(1)
  \/ SubmitFinish(1)
  \/ LoadQuizFinish(1)
  \/ UploadFinish(1)

SpecLoad == InitPlay /\ [][NextLoad]_vars

\* GET /api/question/:roomCode after getRoom, the view it sends kept in the
\* history of its question index.
QuestionShown(h) ==
  /\ Serving(h, "question")
  /\ LET reply == GetQuestion(room[h], now)
     IN /\ Finish(h, reply)
        /\ shown' =
             IF reply.resp.kind = "view"
             THEN [shown EXCEPT ![reply.resp.questionNum - 1] =
                     [phase |-> reply.resp.phase,
                      timeLeft |-> reply.resp.timeLeft]]
             ELSE shown
  /\ UNCHANGED quizzes

\* Views and submissions, overlapping, of a game started at time 0: the two
\* boundaries of the first question, then 3 s and 8 s into the second.
ViewTimes == {0, 30000, 35000, 38000, 43000}
ViewRequests == SubmitsOf({1}) \cup {Request("question")}

NextViews ==
  \/ Tick(ViewTimes)
  \/ \E h \in Handlers : Read(h, ViewRequests, MaxOpsViews)
  \/ \E h \in Handlers : SubmitFinish(h)
  \/ \E h \in Handlers : QuestionShown(h)

SpecViews == InitRace /\ [][NextViews]_vars

\* Answers submitted at every whole second of the first answer window, to a
\* game started at time 0 that nobody polls.  Indexes 0 and 1 are a right
\* and a wrong answer to either question.
ScoreTimes == {k * 1000 : k \in 0..QUESTION_TIME}
ScoreRequests == SubmitsOf({0, 1})

NextScore ==
  \/ Tick(ScoreTimes)
  \/ Read(1, ScoreRequests, MaxOpsScore)
  \/ SubmitFinish(1)

SpecScore == InitRace /\ [][NextScore]_vars

\* Archive ids that resolve (the lobby's quiz) and one that does not.
UnknownQuizIds == {"zz"}

ArchiveRequests ==
  {[Request("load") EXCEPT !.quizId = z] : z \in QuizIds \cup UnknownQuizIds}
    \cup {[Request("upload") EXCEPT !.useExisting = z, !.mixMode = m,
                                    !.content = c, !.numQuestions = 2,
                                    !.mixCount = 1] :
            z \in QuizIds \cup UnknownQuizIds, m \in BOOLEAN, c \in BOOLEAN}
    \cup {Request("start"), Request("question")}

NextArchive ==
  \/ Tick(LoadTimes)
  \/ Read(1, ArchiveRequests, MaxOpsArchive)
  \/ StartFinish(1)
  \/ QuestionFinish(1)
  \/ LoadQuizFinish(1)
  \/ UploadFinish(1)

SpecArchive == InitPlay /\ [][NextArchive]_vars

\* The Redis server stops answering, or answers again.
Outage ==
  /\ up' = ~up
  /\ UNCHANGED <<redis, quizzes, now, pc, request, room, resp, ops, rooms,
                 memResp, shown, ioVars>>

\* The mutating requests, one after the other, on a store that comes and goes.
OutageRequests ==
  JoinRequests \cup ScoreRequests \cup LoadQuizRequests \cup {Request("start")}

NextOutage ==
  \/ Outage
  \/ CreateRoom(1, MaxOpsOutage)
  \/ Read(1, OutageRequests, MaxOpsOutage)
  \/ JoinFinish(1)
  \/ StartFinish(1)
  \/ SubmitFinish(1)
  \/ LoadQuizFinish(1)

SpecOutage == InitPlay /\ [][NextOutage]_vars

\* A request arrives that the clients repeat for as long as the page is
\* open, and its handler's getRoom returns.
Arrive(h, requests) ==
  /\ Free(h)
  /\ \E r \in requests : request' = [request EXCEPT ![h] = r]
  /\ room' = [room EXCEPT ![h] = IF up THEN redis ELSE NoRoom]
  /\ pc' = [pc EXCEPT ![h] = "read"]
  /\ resp' = [resp EXCEPT ![h] = NoResp]
  /\ UNCHANGED <<redis, quizzes, now, ops, rooms, memResp, shown, ioVars, up>>

\* The window of the stored phase is not over: the handlers compare the time
\* elapsed with the window only, so that all the instants after its end are
\* one case.
WindowOpen ==
  /\ redis # NoRoom /\ redis.status = "playing"
  /\ IF redis.phase = "answering"
     THEN now - redis.questionStartTime < QUESTION_TIME * 1000
     ELSE now - redis.revealStartTime < REVEAL_TIME * 1000

\* The clock runs through at most MaxRounds answer and reveal windows.
PollHorizon == MaxRounds * (QUESTION_TIME + REVEAL_TIME) * 1000

\* The wall clock advances to the end of the window of the stored phase.
Elapse ==
  /\ WindowOpen /\ now < PollHorizon
  /\ now' = IF redis.phase = "answering"
            THEN redis.questionStartTime + QUESTION_TIME * 1000
            ELSE redis.revealStartTime + REVEAL_TIME * 1000
  /\ UNCHANGED <<redis, quizzes, pc, request, room, resp, ops, rooms, memResp,
                 shown, ioVars, up>>

\* A game started at time 0 that its clients poll and re-join for ever, with
\* a few answers submitted in between: at any time one get-current-view
\* (handler 1) and one other request (handler 2) may be in flight.
PollViews == {Request("question")}
PollJoins == {[Request("join") EXCEPT !.playerName = "A"]}
PollSubmits == SubmitsOf({1})

NextPoll ==
  \/ Elapse
  \/ Arrive(1, PollViews)
  \/ Arrive(2, PollJoins)
  \/ Read(2, PollSubmits, MaxOpsPoll)
  \/ QuestionShown(1)
  \/ JoinFinish(2)
  \/ SubmitFinish(2)

\* Time keeps advancing, get-current-view keeps being called, and a handler
\* that has read the room runs to its end.
SpecPoll ==
  /\ InitRace /\ [][NextPoll]_vars
  /\ WF_vars(Elapse)
  /\ WF_vars(Arrive(1, PollViews))
  /\ WF_vars(QuestionShown(1))
  /\ WF_vars(JoinFinish(2))
  /\ WF_vars(SubmitFinish(2))

\* Everything, from an empty store.
Init ==
  /\ redis = NoRoom
  /\ quizzes = EmptyMap
  /\ Idle

Next ==
  \/ Tick(LoadTimes)
  \/ \E h \in Handlers : CreateRoom(h, MaxOps)
  \/ \E h \in Handlers : Read(h, Requests, MaxOps)
  \/ \E h \in Handlers : JoinFinish(h)
  \/ \E h \in Handlers : StartFinish(h)
  \/ \E h \in Handlers : QuestionFinish(h)
  \/ \E h \in Handlers : SubmitFinish(h)
  \/ \E h \in Handlers : LoadQuizFinish(h)
  \/ \E h \in Handlers : UploadFinish(h)

Spec == Init /\ [][Next]_vars

\* -------------------------------------------------- the in-process variant
\* src/unnamed/part_002: the handlers run to their end on the room object
\* of the Map, one at a time (upload-content awaits the generation and then
\* assigns to the same object, so it is one step on the room too).
MemNewRoom(t) ==
  [players |-> {}, questions |-> <<>>, currentQuestion |-> 0,
   scores |-> EmptyMap, playerAnswers |-> EmptyMap, status |-> "waiting",
   questionStartTime |-> NoTime, lastUpdate |-> t]

MEM_QUESTION_TIME == 20

\* Math.max(100, Math.floor(timeLeft * 100)), line 239.
MemPoints(timeLeft) == Max(100, timeLeft * 100)

\* POST /api/join-room/:roomCode
MemJoinRoom(r, playerName, t) ==
  IF r = NoRoom THEN Reply(r, FALSE, Resp("notFound"))
  ELSE Reply(
         [(IF playerName \in r.players THEN r
           ELSE [r EXCEPT !.players = @ \cup {playerName},
                          !.scores = Put(@, playerName, 0),
                          !.playerAnswers = Put(@, playerName, <<>>)])
            EXCEPT !.lastUpdate = t],
         TRUE, Resp("success"))

\* POST /api/upload-content/:roomCode
MemUploadContent(r, gen, t) ==
  IF r = NoRoom THEN Reply(r, FALSE, Resp("notFound"))
  ELSE IF ~gen.ok THEN Reply(r, FALSE, Resp("failed"))
  ELSE Reply([r EXCEPT !.questions = gen.questions, !.lastUpdate = t],
             TRUE, Resp("success"))

\* POST /api/start-game/:roomCode
MemStartGame(r, t) ==
  IF r = NoRoom \/ Len(r.questions) = 0
  THEN Reply(r, FALSE, Resp("invalid"))
  ELSE Reply(
         [r EXCEPT
            !.status = "playing", !.currentQuestion = 0,
            !.questionStartTime = t,
            !.scores = [x \in DOMAIN @ \cup r.players |->
                          IF x \in r.players THEN 0 ELSE @[x]],
            !.playerAnswers = [x \in DOMAIN @ \cup r.players |->
                                 IF x \in r.players THEN <<>> ELSE @[x]],
            !.lastUpdate = t],
         TRUE, Resp("success"))

\* GET /api/question/:roomCode
MemGetQuestion(r, t) ==
  IF r = NoRoom THEN Reply(r, FALSE, Resp("notFound"))
  ELSE IF r.status = "finished" THEN Reply(r, FALSE, Resp("finished"))
  ELSE IF r.status # "playing" THEN Reply(r, FALSE, Resp("status"))
  ELSE IF r.currentQuestion >= Len(r.questions)
  THEN Reply(r, FALSE, Resp("exception"))
  ELSE Reply(r, FALSE,
             [Resp("view") EXCEPT
                !.questionNum = r.currentQuestion + 1,
                !.timeLeft =
                   Max(0, MEM_QUESTION_TIME
                            - ElapsedSeconds(t, r.questionStartTime))])

\* Array.prototype.some(a => a.questionIndex === q)
Answered(answers, q) ==
  \E i \in 1..Len(answers) : answers[i].questionIndex = q

\* POST /api/submit-answer/:roomCode
MemSubmitAnswer(r, playerName, answerIndex, t) ==
  IF r = NoRoom \/ r.status # "playing"
  THEN Reply(r, FALSE, Resp("invalid"))
  ELSE IF r.currentQuestion >= Len(r.questions)
  THEN Reply(r, FALSE, Resp("exception"))  \* question.correct throws
  ELSE
    LET question == r.questions[r.currentQuestion + 1]
        timeLeft ==
          Max(0, MEM_QUESTION_TIME - ElapsedSeconds(t, r.questionStartTime))
        isCorrect == answerIndex = question.correct
        record == [questionIndex |-> r.currentQuestion,
                   question |-> question.question,
                   playerAnswer |-> answerIndex,
                   correctAnswer |-> question.correct,
                   isCorrect |-> isCorrect]
        tracked ==
          IF /\ playerName \in DOMAIN r.playerAnswers
             /\ ~Answered(r.playerAnswers[playerName], r.currentQuestion)
          THEN [r EXCEPT
                  !.playerAnswers[playerName] = Append(@, record),
                  !.scores[playerName] =
                     IF isCorrect THEN @ + MemPoints(timeLeft) ELSE @]
          ELSE r
    IN Reply([tracked EXCEPT !.lastUpdate = t], TRUE,
             [Resp("submitted") EXCEPT !.correctAnswer = question.correct])

\* POST /api/next-question/:roomCode
MemNextQuestion(r, t) ==
  IF r = NoRoom THEN Reply(r, FALSE, Resp("notFound"))
  ELSE LET r1 == [r EXCEPT !.currentQuestion = @ + 1,
                           !.questionStartTime = t, !.lastUpdate = t]
       IN Reply(IF r1.currentQuestion >= Len(r1.questions)
                THEN [r1 EXCEPT !.status = "finished"] ELSE r1,
                TRUE, Resp("success"))

\* A handler of the in-process variant runs.
MemStep(reply) ==
  /\ ops < MaxOpsMemory
  /\ ops' = ops + 1
  /\ rooms' = IF reply.write THEN reply.room ELSE rooms
  /\ memResp' = reply.resp
  /\ UNCHANGED <<now, redisVars, shown, ioVars>>

MemCreate == MemStep(Reply(MemNewRoom(now), TRUE, Resp("roomCode")))
MemJoin == \E p \in Players : MemStep(MemJoinRoom(rooms, p, now))
MemUpload == \E gen \in GenResults : MemStep(MemUploadContent(rooms, gen, now))
MemStart == MemStep(MemStartGame(rooms, now))
MemQuestion == MemStep(MemGetQuestion(rooms, now))
MemSubmit ==
  \E p \in Players, a \in AnswerIndexes :
    MemStep(MemSubmitAnswer(rooms, p, a, now))
MemNext == MemStep(MemNextQuestion(rooms, now))

NextMemory ==
  \/ Tick(MemoryTimes)
  \/ MemCreate
  \/ MemJoin
  \/ MemUpload
  \/ MemStart
  \/ MemQuestion
  \/ MemSubmit
  \/ MemNext

SpecMemory == Init /\ [][NextMemory]_vars

\* ------------------------------------------------------ the socket variant
\* src/server.js: socket.io handlers on the room object of the Map, one at a
\* time.  A player's socket is known by the player's name; what the handlers
\* emit is left out.
IoNewRoom ==
  [players |-> {}, questions |-> <<>>, currentQuestion |-> 0,
   scores |-> EmptyMap, playerAnswers |-> EmptyMap, status |-> "waiting"]

\* The timeLeft a client may send with its answer (the view's timeLimit is 15).
IoTimeLefts == {0, 15}

\* The answers a client sends: a right and a wrong one for either question.
IoAnswers == {0, 1}

\* socket.on('join-room')
IoJoinRoom(r, playerName) ==
  IF playerName \in r.players THEN r
  ELSE [r EXCEPT !.players = @ \cup {playerName},
                 !.scores = Put(@, playerName, 0),
                 !.playerAnswers = Put(@, playerName, <<>>)]

\* POST /api/upload-content/:roomCode
IoUploadContent(r, gen) ==
  IF gen.ok THEN [r EXCEPT !.questions = gen.questions] ELSE r

\* socket.on('start-game')
IoStartGame(r) ==
  IF Len(r.questions) = 0 THEN r
  ELSE [r EXCEPT
          !.status = "playing", !.currentQuestion = 0,
          !.scores = [x \in DOMAIN @ \cup r.players |->
                        IF x \in r.players THEN 0 ELSE @[x]],
          !.playerAnswers = [x \in DOMAIN @ \cup r.players |->
                               IF x \in r.players THEN <<>> ELSE @[x]]]

\* socket.on('submit-answer') of the socket of playerName
IoSubmitAnswer(r, playerName, answerIndex, timeLeft) ==
  IF r.status # "playing" THEN r
  ELSE IF r.currentQuestion >= Len(r.questions)
  THEN r   \* question.correct throws
  ELSE
    LET question == r.questions[r.currentQuestion + 1]
        isCorrect == answerIndex = question.correct
        record == [questionIndex |-> r.currentQuestion,
                   question |-> question.question,
                   playerAnswer |-> answerIndex,
                   correctAnswer |-> question.correct,
                   isCorrect |-> isCorrect]
        tracked ==
          IF playerName \in DOMAIN r.playerAnswers
          THEN [r EXCEPT !.playerAnswers[playerName] = Append(@, record)]
          ELSE r
        score == IF playerName \in DOMAIN r.scores
                 THEN r.scores[playerName] ELSE 0
    IN IF isCorrect
       THEN [tracked EXCEPT
               !.scores = Put(@, playerName,
                              score + Max(100, timeLeft * 100))]
       ELSE tracked

\* socket.on('next-question')
IoNextQuestion(r) ==
  LET r1 == [r EXCEPT !.currentQuestion = @ + 1]
  IN IF r1.currentQuestion >= Len(r1.questions)
     THEN [r1 EXCEPT !.status = "finished"]
     ELSE r1

\* socket.on('disconnect') of the socket of playerName
IoDisconnect(r, playerName) == [r EXCEPT !.players = @ \ {playerName}]

\* A handler of the socket variant runs.
IoStep(newRoom, newSockets) ==
  /\ ops < MaxOpsSocket
  /\ ops' = ops + 1
  /\ ioRooms' = newRoom
  /\ sockets' = newSockets
  /\ UNCHANGED <<now, redisVars, memVars, shown>>

IoCreate == IoStep(IoNewRoom, {})
IoUpload ==
  /\ ioRooms # NoRoom
  /\ \E gen \in GenResults : IoStep(IoUploadContent(ioRooms, gen), sockets)
IoJoin ==
  /\ ioRooms # NoRoom
  /\ \E p \in Players : IoStep(IoJoinRoom(ioRooms, p), sockets \cup {p})
IoStart == ioRooms # NoRoom /\ IoStep(IoStartGame(ioRooms), sockets)
IoSubmit ==
  /\ ioRooms # NoRoom
  /\ \E p \in sockets, a \in IoAnswers, timeLeft \in IoTimeLefts :
       IoStep(IoSubmitAnswer(ioRooms, p, a, timeLeft), sockets)
IoNext == ioRooms # NoRoom /\ IoStep(IoNextQuestion(ioRooms), sockets)
IoLeave ==
  /\ ioRooms # NoRoom
  /\ \E p \in sockets : IoStep(IoDisconnect(ioRooms, p), sockets \ {p})

NextSocket ==
  \/ IoCreate
  \/ IoUpload
  \/ IoJoin
  \/ IoStart
  \/ IoSubmit
  \/ IoNext
  \/ IoLeave

SpecSocket == Init /\ [][NextSocket]_vars

\* ============================================================== properties
\* The AnswerRecords of player p for question index q in room r.
Records(r, p, q) ==
  IF r # NoRoom /\ p \in DOMAIN r.playerAnswers
  THEN Cardinality({i \in 1..Len(r.playerAnswers[p]) :
                      r.playerAnswers[p][i].questionIndex = q})
  ELSE 0

Answering(r) == r # NoRoom /\ r.status = "playing" /\ r.phase = "answering"

\* Handler h ends in this step.
Ends(h, name) == Serving(h, name) /\ pc'[h] = "done"

\* This step is a successful start-game.
Started == \E h \in Handlers : Ends(h, "start") /\ resp'[h].kind = "success"

\* Handlers h1 and h2 both served a submit-answer that read the room in the
\* same answering phase of the same question, and both have ended.
SubmittedTogether(h1, h2) ==
  /\ h1 # h2 /\ pc[h1] = "done" /\ pc[h2] = "done"
  /\ request[h1].name = "submit" /\ request[h2].name = "submit"
  /\ Answering(room[h1]) /\ Answering(room[h2])
  /\ room[h1].currentQuestion = room[h2].currentQuestion
  /\ room[h1].questionStartTime = room[h2].questionStartTime

\* C1: in the stored room every player has at most one AnswerRecord per
\* question index.
C1_AtMostOneRecord ==
  redis # NoRoom =>
    \A p \in Players, q \in 0..Len(redis.questions) : Records(redis, p, q) <= 1

\* C2: once two submit-answer calls of one player for one question have
\* both ended, whatever the interleaving of their reads and writes, the
\* stored room holds exactly one AnswerRecord of that player for it.
C2_ConcurrentSubmitsOneRecord ==
  \A h1, h2 \in Handlers :
    (/\ SubmittedTogether(h1, h2)
     /\ request[h1].playerName = request[h2].playerName
     /\ resp[h1].kind \in {"submitted", "alreadyAnswered"}
     /\ resp[h2].kind \in {"submitted", "alreadyAnswered"})
    => Records(redis, request[h1].playerName, room[h1].currentQuestion) = 1

\* C3: once two submit-answer calls of two players for one question have
\* both reported success, the stored room holds the AnswerRecord, the
\* currentQuestionAnswers entry and the registration of both players.
C3_NoLostUpdate ==
  \A h1, h2 \in Handlers :
    (/\ SubmittedTogether(h1, h2)
     /\ request[h1].playerName # request[h2].playerName
     /\ resp[h1].kind = "submitted" /\ resp[h2].kind = "submitted")
    => \A h \in {h1, h2} :
         /\ Records(redis, request[h].playerName, room[h].currentQuestion) = 1
         /\ request[h].playerName \in DOMAIN redis.currentQuestionAnswers
         /\ request[h].playerName \in redis.players

\* C4: a submit-answer of a player whose answer to the current question was
\* already accepted returns alreadyAnswered and leaves the stored scores,
\* playerAnswers and currentQuestionAnswers as they were.
C4_DuplicateLeavesState ==
  [][\A h \in Handlers :
       (/\ Ends(h, "submit")
        /\ Answering(room[h])
        /\ request[h].playerName \in DOMAIN room[h].currentQuestionAnswers)
       => /\ resp'[h].kind = "alreadyAnswered"
          /\ redis'.scores = redis.scores
          /\ redis'.playerAnswers = redis.playerAnswers
          /\ redis'.currentQuestionAnswers = redis.currentQuestionAnswers]_vars

\* C5: the stored currentQuestion decreases only in a successful start-game.
C5_IndexNeverDecreases ==
  [][(redis # NoRoom /\ redis' # NoRoom
        /\ redis'.currentQuestion < redis.currentQuestion) => Started]_vars

StatusRank(status) ==
  CASE status = "waiting" -> 0 [] status = "playing" -> 1
    [] status = "finished" -> 2 [] OTHER -> -1

\* C6: the stored status moves backward along waiting, playing, finished
\* only in a successful start-game.
C6_StatusOnlyForward ==
  [][(redis # NoRoom /\ redis' # NoRoom
        /\ StatusRank(redis'.status) < StatusRank(redis.status))
       => Started]_vars

\* C7: the current question index of a room is between 0 and the number of
\* its questions.
C7_IndexInRange ==
  rooms # NoRoom =>
    (0 <= rooms.currentQuestion /\ rooms.currentQuestion <= Len(rooms.questions))

\* C8: an advance adds exactly 1 to the index and finishes the game when the
\* index reaches the question count; on a finished room an advance or a
\* view changes neither the index nor questionStartTime.
C8_AdvanceByOneThenStop ==
  [][((MemNext \/ MemQuestion) /\ rooms # NoRoom) =>
       IF rooms.status = "finished"
       THEN /\ rooms'.currentQuestion = rooms.currentQuestion
            /\ rooms'.questionStartTime = rooms.questionStartTime
       ELSE MemNext =>
              /\ rooms'.currentQuestion = rooms.currentQuestion + 1
              /\ (rooms'.currentQuestion = Len(rooms'.questions)
                    => rooms'.status = "finished")]_vars

\* C9: one get-current-view call resolves at most one phase boundary.  A
\* call that read answering and stored revealing keeps the index and leaves
\* the game playing; a call that read revealing and moved the index added
\* exactly 1, and if the game goes on the new question is stored and shown
\* as answering, with its window starting at the call.
C9_OneBoundaryPerCall ==
  [][\A h \in Handlers :
       (Ends(h, "question") /\ room[h] # NoRoom /\ room[h].status = "playing")
       => /\ (room[h].phase = "answering" /\ redis'.phase = "revealing")
               => /\ redis'.currentQuestion = room[h].currentQuestion
                  /\ redis'.status = "playing"
                  /\ resp'[h].kind # "finished"
          /\ (room[h].phase = "answering")
               => redis'.currentQuestion = room[h].currentQuestion
          /\ (room[h].phase = "revealing"
                /\ redis'.currentQuestion # room[h].currentQuestion)
               => /\ redis'.currentQuestion = room[h].currentQuestion + 1
                  /\ (redis'.status = "playing"
                        => /\ redis'.phase = "answering"
                           /\ redis'.questionStartTime = now
                           /\ resp'[h].phase = "answering")]_vars

\* C9's case: a view asked 35 s or more after the question started, on a
\* room still stored as answering, has resolved to revealing.
C9_Witness ==
  /\ pc[1] = "done" /\ request[1].name = "question"
  /\ Answering(room[1])
  /\ now - room[1].questionStartTime >= (QUESTION_TIME + REVEAL_TIME) * 1000
  /\ room[1].currentQuestion = 1
  /\ redis.phase = "revealing" /\ redis.currentQuestion = 1
  /\ resp[1].phase = "revealing"

\* C10: a get-current-view call on a playing room in the answering phase
\* whose answer window is over stores revealing with revealStartTime = now,
\* keeps the index, the scores and the history, and returns the revealing
\* view with the correct index; before that the phase stays answering.
C10_AnswerWindowExpiry ==
  [][\A h \in Handlers :
       (Ends(h, "question") /\ Answering(room[h]))
       => IF now - room[h].questionStartTime >= QUESTION_TIME * 1000
          THEN /\ redis'.phase = "revealing"
               /\ redis'.revealStartTime = now
               /\ redis'.currentQuestion = room[h].currentQuestion
               /\ redis'.scores = room[h].scores
               /\ redis'.playerAnswers = room[h].playerAnswers
               /\ resp'[h].kind = "view"
               /\ resp'[h].phase = "revealing"
               /\ resp'[h].correctAnswer # NoAnswer
          ELSE redis'.phase = "answering"]_vars

\* C11: a view sent in the answering phase carries no correct index (nor the
\* explanation that goes with it); a view sent in the revealing phase carries
\* the correct index of the current question; the phase sent is the stored
\* one and timeLeft is max(0, window - elapsed) of that phase, never negative.
C11_ViewWithholdsAnswer ==
  [][\A h \in Handlers :
       (Ends(h, "question") /\ resp'[h].kind = "view")
       => /\ resp'[h].phase = redis'.phase
          /\ resp'[h].phase \in {"answering", "revealing"}
          /\ resp'[h].timeLeft >= 0
          /\ resp'[h].phase = "answering"
               => /\ resp'[h].correctAnswer = NoAnswer
                  /\ resp'[h].timeLeft =
                       Max(0, QUESTION_TIME
                                - (now - redis'.questionStartTime) \div 1000)
          /\ resp'[h].phase = "revealing"
               => /\ resp'[h].correctAnswer =
                       redis'.questions[redis'.currentQuestion + 1].correct
                  /\ resp'[h].timeLeft =
                       Max(0, REVEAL_TIME
                                - (now - redis'.revealStartTime) \div 1000)]_vars

\* C11's case: an answering view sent one second before the window ends.
C11_Witness ==
  /\ pc[1] = "done" /\ request[1].name = "question"
  /\ resp[1].kind = "view" /\ resp[1].phase = "answering"
  /\ resp[1].timeLeft = 1 /\ resp[1].correctAnswer = NoAnswer
  /\ redis.questions[redis.currentQuestion + 1].correct = 1

\* C13: a submit-answer that read a room that is not playing, or not in the
\* answering phase, answers InvalidState and stores nothing.
C13_SubmitOutsideAnswering ==
  [][\A h \in Handlers :
       (Ends(h, "submit") /\ room[h] # NoRoom /\ ~Answering(room[h]))
       => /\ resp'[h].kind = "invalid"
          /\ redis' = redis]_vars

\* C13's case: a submit-answer of a player the room does not know, rejected
\* in the revealing phase.
C13_Witness ==
  /\ pc[1] = "done" /\ request[1].name = "submit"
  /\ room[1] # NoRoom /\ room[1].status = "playing"
  /\ room[1].phase = "revealing"
  /\ resp[1].kind = "invalid"
  /\ redis = room[1]
  /\ request[1].playerName \notin redis.players

\* C14: start-game on a room without questions answers InvalidState and
\* leaves status, phase, index, scores and history as stored; on a room with
\* questions it succeeds and stores playing / answering / index 0 / no
\* current answers.
C14_StartNeedsQuestions ==
  [][\A h \in Handlers :
       (Ends(h, "start") /\ room[h] # NoRoom)
       => IF Len(room[h].questions) = 0
          THEN /\ resp'[h].kind = "invalid"
               /\ redis'.status = redis.status
               /\ redis'.phase = redis.phase
               /\ redis'.currentQuestion = redis.currentQuestion
               /\ redis'.scores = redis.scores
               /\ redis'.playerAnswers = redis.playerAnswers
          ELSE /\ resp'[h].kind = "success"
               /\ redis'.status = "playing"
               /\ redis'.phase = "answering"
               /\ redis'.currentQuestion = 0
               /\ redis'.currentQuestionAnswers = EmptyMap]_vars

\* C14's case: start-game rejected on a room whose question list is empty.
C14_Witness ==
  /\ pc[1] = "done" /\ request[1].name = "start"
  /\ room[1] # NoRoom /\ Len(room[1].questions) = 0
  /\ resp[1].kind = "invalid"
  /\ redis # NoRoom /\ redis.status # "playing"

\* C15: an explicit advance on a room that is not playing answers
\* InvalidState and leaves the room as it was.
C15_AdvanceNeedsPlaying ==
  [][(MemNext /\ rooms # NoRoom /\ rooms.status # "playing")
       => (memResp'.kind = "invalid" /\ rooms' = rooms)]_vars

\* A create-room request is served in this step.
Created(h) ==
  /\ Free(h) /\ pc'[h] = "done" /\ request'[h].name = "create"
  /\ ops' = ops + 1 /\ resp'[h].kind = "roomCode"

\* C18: a create-room whose code resolves to a stored room leaves that room
\* as it was, and a saved quiz is never replaced by a later save.
C18_CreateKeepsExisting ==
  [][/\ \A h \in Handlers : (Created(h) /\ redis # NoRoom) => redis' = redis
     /\ \A z \in DOMAIN quizzes :
          z \in DOMAIN quizzes' /\ quizzes'[z] = quizzes[z]]_vars

\* C16: every question of a stored room has its correct index among the four
\* options, whatever the generation service answered.
C16_StoredQuestionsWellFormed ==
  /\ redis # NoRoom =>
       \A i \in 1..Len(redis.questions) :
         redis.questions[i].correct \in AnswerIndexes
  /\ rooms # NoRoom =>
       \A i \in 1..Len(rooms.questions) :
         rooms.questions[i].correct \in AnswerIndexes

\* C17: load-archived-quiz and load-questions given an archive id that does
\* not resolve answer NotFound and store nothing.
C17_UnknownArchiveIsNotFound ==
  [][\A h \in Handlers :
       /\ (Ends(h, "load") /\ room[h] # NoRoom
             /\ request[h].quizId \notin DOMAIN quizzes)
            => (resp'[h].kind = "notFound" /\ redis' = redis)
       /\ (Ends(h, "upload") /\ room[h] # NoRoom
             /\ request[h].useExisting # ""
             /\ request[h].useExisting \notin DOMAIN quizzes)
            => (resp'[h].kind = "notFound" /\ redis' = redis)]_vars

\* The scoring constants of line 507.
MinimumPoints == 100
PointsPerSecond == 50

\* C19: an accepted submission adds 0 to the score when wrong and
\* max(MinimumPoints, timeLeft * PointsPerSecond) when correct, timeLeft
\* being a whole number of seconds in 0..QUESTION_TIME; a correct answer
\* earns at least MinimumPoints > 0, and the points of a correct answer do
\* not decrease as timeLeft grows.
C19_PointsRule ==
  [][\A h \in Handlers :
       (Ends(h, "submit") /\ resp'[h].kind = "submitted")
       => LET p == request[h].playerName
              before == IF p \in DOMAIN room[h].scores
                        THEN room[h].scores[p] ELSE 0
              awarded == redis'.scores[p] - before
              timeLeft ==
                Max(0, QUESTION_TIME
                         - (now - room[h].questionStartTime) \div 1000)
              correct ==
                request[h].answerIndex
                  = room[h].questions[room[h].currentQuestion + 1].correct
          IN /\ timeLeft \in 0..QUESTION_TIME
             /\ awarded = IF correct
                          THEN Max(MinimumPoints, timeLeft * PointsPerSecond)
                          ELSE 0
             /\ correct => (awarded >= MinimumPoints /\ awarded > 0)
             /\ \A less \in 0..timeLeft : Points(less) <= Points(timeLeft)]_vars

\* C19's case: the first answer of the game, a correct one by a player the
\* room did not know, accepted with no time left, earns the minimum.
C19_Witness ==
  /\ pc[1] = "done" /\ request[1].name = "submit"
  /\ ops = 1 /\ request[1].playerName = "B" /\ Len(redis.questions) = 1
  /\ resp[1].kind = "submitted"
  /\ now - room[1].questionStartTime = QUESTION_TIME * 1000
  /\ request[1].answerIndex
       = room[1].questions[room[1].currentQuestion + 1].correct
  /\ redis.scores[request[1].playerName] = MinimumPoints

\* C12: for one question index the views never go back from revealing to
\* answering, and the timeLeft of its answering views never increases: a
\* view sent as answering follows only answering views of the same question,
\* each with at least as much time left.
C12_PhaseNeverRegresses ==
  [][\A h \in Handlers :
       (Ends(h, "question") /\ resp'[h].kind = "view"
          /\ resp'[h].phase = "answering")
       => LET before == shown[resp'[h].questionNum - 1]
          IN before # NoView
               => /\ before.phase = "answering"
                  /\ resp'[h].timeLeft <= before.timeLeft]_vars

\* C20: right after a successful start-game every name that has a score has
\* the score 0, whether or not it is still in the players list.
C20_StartResetsAllScores ==
  [][(IoStart /\ Len(ioRooms.questions) > 0)
       => \A p \in DOMAIN ioRooms'.scores : ioRooms'.scores[p] = 0]_vars

\* This step is a get-current-view that moved the stored room from revealing
\* to the answering phase of the next question.
EnteredNext ==
  \E h \in Handlers :
    /\ Ends(h, "question") /\ room[h] # NoRoom
    /\ room[h].phase = "revealing"
    /\ Answering(redis')
    /\ redis'.currentQuestion = room[h].currentQuestion + 1

\* C21: currentQuestionAnswers of the stored room has at most as many entries
\* as the room has players and each of its keys is a player of the room; it
\* is empty right after a start-game and right after a revealing ->
\* answering advance, and no other step empties it.
C21_CurrentAnswersOfPlayers ==
  [][redis' # NoRoom =>
       /\ DOMAIN redis'.currentQuestionAnswers \subseteq redis'.players
       /\ Cardinality(DOMAIN redis'.currentQuestionAnswers)
            <= Cardinality(redis'.players)
       /\ (Started \/ EnteredNext) => redis'.currentQuestionAnswers = EmptyMap
       /\ (redis # NoRoom /\ redis.currentQuestionAnswers # EmptyMap
             /\ redis'.currentQuestionAnswers = EmptyMap)
            => (Started \/ EnteredNext)]_vars

\* room with its lastUpdate field masked.
SaveLastUpdate(r) == [r EXCEPT !.lastUpdate = 0]

\* C22: a step that changes any field of the stored room other than
\* lastUpdate, the lazy transitions of get-current-view included, sets
\* lastUpdate to the time of the step.
C22_LastUpdateFollowsChange ==
  [][(redis # NoRoom /\ redis' # NoRoom
        /\ SaveLastUpdate(redis') # SaveLastUpdate(redis))
       => redis'.lastUpdate = now]_vars

\* The number of times question q occurs in the list s.
Occurrences(s, q) == Cardinality({i \in 1..Len(s) : s[i] = q})

\* The list a is a permutation of the list b.
Permutation(a, b) ==
  /\ Len(a) = Len(b)
  /\ \A i \in 1..Len(b) : Occurrences(a, b[i]) = Occurrences(b, b[i])

\* C23: a successful load-archived-quiz stores in the room a permutation of
\* the archived question list (same length, same questions as often, each
\* unchanged) and leaves the archive as it was.
C23_ArchiveRoundTrip ==
  [][\A h \in Handlers :
       (Ends(h, "load") /\ resp'[h].kind = "success")
       => /\ Permutation(redis'.questions, quizzes[request[h].quizId])
          /\ quizzes' = quizzes]_vars

\* C23's case: a quiz that an upload-content saved in the archive (it holds
\* the question only the generation of this run produced), loaded into a room
\* that create-room has just made, in another order than the archived one.
C23_Witness ==
  /\ pc[1] = "done" /\ request[1].name = "load" /\ resp[1].kind = "success"
  /\ room[1] = NewRoom(room[1].lastUpdate)
  /\ Len(quizzes["z1"]) = 2
  /\ \E i \in 1..2 : quizzes["z1"][i] = QBad
  /\ redis.questions # quizzes["z1"]
  /\ Permutation(redis.questions, quizzes["z1"])

\* C24: a submit-answer served when the answer window of the question it
\* read is over is not accepted: it adds no AnswerRecord and changes no
\* score, whether or not a get-current-view has stored the revealing phase.
C24_NoScoreAfterWindow ==
  [][\A h \in Handlers :
       (/\ Ends(h, "submit") /\ room[h] # NoRoom
        /\ room[h].status = "playing"
        /\ now - room[h].questionStartTime >= QUESTION_TIME * 1000)
       => /\ resp'[h].kind # "submitted"
          /\ redis'.playerAnswers = redis.playerAnswers
          /\ redis'.scores = redis.scores]_vars

\* C25: a stored room that is playing has a current question: its question
\* list is not empty and currentQuestion is an index of it.
C25_PlayingHasQuestion ==
  (redis # NoRoom /\ redis.status = "playing")
    => /\ Len(redis.questions) > 0
       /\ redis.currentQuestion < Len(redis.questions)

\* The responses that tell the caller its change was made.
SuccessKinds == {"roomCode", "success", "submitted"}

\* C26: create-room, join-room, start-game, submit-answer and
\* load-archived-quiz served while the store takes no write do not answer
\* with a success response.
C26_SuccessMeansStored ==
  [][\A h \in Handlers :
       (/\ ~up
        /\ \/ Created(h)
           \/ \E name \in {"join", "start", "submit", "load"} : Ends(h, name))
       => resp'[h].kind \notin SuccessKinds]_vars

\* No get-current-view has sent a view yet.
NeverShown == \A q \in QuestionIndexes : shown[q] = NoView

\* C27: a playing room that keeps being polled while time advances is
\* eventually finished, whatever submit-answer calls come in between; and as
\* long as no get-current-view has been served, the stored phase and
\* currentQuestion are the ones start-game stored.
C27_PollingFinishesGame ==
  /\ <>(redis.status = "finished")
  /\ [](NeverShown
          => /\ redis.status = "playing"
             /\ redis.phase = "answering"
             /\ redis.currentQuestion = 0)

====
